---- MODULE Spec2Model ----
(***************************************************************************)
(* A model of the connection core of rpc.Conn (rpc/rpc.go): the manager,   *)
(* the channel mutex, Close, Bootstrap, the receive and send loops, the    *)
(* shutdown finalizer and the question / answer / export / import tables.  *)
(***************************************************************************)
EXTENDS Integers, Sequences, FiniteSets, TLC

(* ------------------------------ bounds --------------------------------- *)
\* Number of concurrent Bootstrap calls (each allocates at most one question).
NBoot == 2
\* Number of concurrent Close calls.
NClose == 2
\* Number of messages the receive loop handles.
MaxRecv == 4
\* Capacity of the outgoing channel c.out (the SendBufferSize option).
SendBuf == 1

\* Messages of the peer when any of them may break the protocol.
MaxProbes == 3
\* Returns the peer sends in reply to this side's calls.
MaxReturns == 2
\* Number of answer ids and of export / import ids the peer may name.
NIds == 4
\* Largest referenceCount of a release message.
MaxRefs == 2
\* Largest cap table of a call.
MaxCaps == 2

BProcs == 1..NBoot
CProcs == 1..NClose
QIds == 0..(NBoot - 1)
\* Answer, export and import ids; the largest is never allocated locally.
Ids == 0..NIds
\* Answers are numbered by the message that created them.
Serials == 1..MaxRecv

(* ------------------------------ state ---------------------------------- *)
VARIABLES
    done,       \* manager: the finish channel is closed
    merr,       \* manager: the terminal error
    mu,         \* chanMutex: Unlocked or its holder
    out,        \* c.out, the buffered channel of outgoing messages
    tsend,      \* every message handed to transport.SendMessage, in order
    tclose,     \* the callers of transport.Close, in order
    recvDone,   \* dispatchRecv has returned
    sendDone,   \* dispatchSend has returned
    finDone,    \* the shutdown finalizer task has returned
    nrecv,      \* messages received so far
    cpc,        \* Close call: position
    cret,       \* Close call: returned error
    bpc,        \* Bootstrap call: position
    bres,       \* Bootstrap call: what it returned
    bhow,       \* Bootstrap call: which case of the first select was taken
    ctxDone,    \* Bootstrap call: its context is canceled
    qtab,       \* c.questions: id -> question (0: empty slot)
    qgen,       \* c.questionID: [next fresh id, released ids (last released first)]
    qid,        \* question: its id
    qstate,     \* question: none | pending | resolved | canceling | canceled
    qstarted,   \* question: start() was called
    qorder,     \* question: its allocation rank
    nalloc,     \* questions allocated so far
    nfinish,    \* question: finish messages sent for it
    qparams,    \* question: paramCaps, the export ids its call took a count of
    qerr,       \* question: "" unresolved, "nil" fulfilled, else the error
    mainFunc,   \* the connection option: none | MainInterface | BootstrapFunc
    mainClosed, \* calls of mainCloser.Close
    atab,       \* c.answers: id -> answer (0: no entry)
    ans,        \* the answers, by serial
    exports,    \* c.exports: id -> [cl, refs] (refs 0: empty slot)
    egen,       \* c.exportID
    imports,    \* c.imports: id -> refcount (0: no entry)
    calls,      \* the local calls started, in order
    rpc,        \* receive loop: idle, or inside handleReturnMessage
    rmsg,       \* receive loop: the return or release last taken up
    rq,         \* receive loop: the question popped for it
    panicked,   \* the receive goroutine hit a nil dereference
    pexp,       \* the peer's export table
    pegen,      \* the peer's export id pool
    pseen,      \* the messages of tsend the peer has handled
    pbad,       \* the peer was asked to release what it does not export
    delivered   \* the sender-side references the peer has put in cap tables

mgrVars == <<done, merr>>
ioVars == <<out, tsend, tclose>>
taskVars == <<recvDone, sendDone, finDone, nrecv>>
closeVars == <<cpc, cret>>
bootVars == <<bpc, bres, bhow, ctxDone>>
qVars ==
    <<qtab, qgen, qid, qstate, qstarted, qorder, nalloc, nfinish, qparams, qerr>>
cfgVars == <<mainFunc, mainClosed>>
tabVars == <<atab, ans, exports, egen, imports, calls>>
recvVars == <<rpc, rmsg, rq, panicked>>
peerVars == <<pexp, pegen, pseen, pbad, delivered>>
hVars == <<cfgVars, tabVars, recvVars, peerVars>>
vars == <<mgrVars, mu, ioVars, taskVars, closeVars, bootVars, qVars, hVars>>

(* ----------------------------- messages -------------------------------- *)
\* A message target and a capability descriptor; tr is a list of
\* PromisedAnswer.Op on the wire.
Target(k, id, tr) == [k |-> k, id |-> id, tr |-> tr]
NoTarget == Target("none", 0, <<>>)
Desc(k, id, tr) == [k |-> k, id |-> id, tr |-> tr]
Noop == [op |-> "noop", f |-> 0]
GetPointerField(f) == [op |-> "getPointerField", f |-> f]

\* newMessage: kind is the union tag, id the question / answer / export
\* id, arg the variant or the error, n a count or an embargo id, rel the
\* release flag, caps the payload's cap table, tgt the target, q the local
\* question the message was sent for (0: none).
Msg(kind, id, arg) ==
    [kind |-> kind, id |-> id, arg |-> arg, n |-> 0, rel |-> FALSE,
     caps |-> <<>>, tgt |-> NoTarget, q |-> 0]

NoMsg == Msg("none", 0, "")

\* newAbortMessage(nil, err)
newAbortMessage(err) == Msg("abort", 0, err)

\* msg.NewBootstrap(); boot.SetQuestionId(q.id)
newBootstrapMessage(id, q) == [Msg("bootstrap", id, "") EXCEPT !.q = q]

\* newFinishMessage(nil, questionID, release)
newFinishMessage(id, release, q) ==
    [Msg("finish", id, "") EXCEPT !.rel = release, !.q = q]

\* newUnimplementedMessage(nil, m): an echo of m
newUnimplementedMessage(m) == Msg("unimplemented", m.id, m.kind)

\* newReturnMessage(nil, id) with setReturnException(r, err)
newReturnException(id, err) ==
    [Msg("return", id, "exception") EXCEPT !.tgt = Target("exception", 0, <<>>),
                                            !.arg = err]

\* newDisembargoMessage(nil, receiverLoopback, id) with rd.SetTarget(dtarget)
newDisembargoMessage(which, id, dtarget) ==
    [Msg("disembargo", 0, which) EXCEPT !.n = id, !.tgt = dtarget]

(* ------------------------------ manager -------------------------------- *)
\* manager.shutdown(e): the first caller wins and sets the terminal error.
shutdownWins == ~done
shutdownErr(e) == IF done THEN merr ELSE e

\* manager.wait(): finish is closed and every task has returned.
waitReturns == done /\ recvDone /\ sendDone /\ finDone

(* ------------------------------ tables --------------------------------- *)
\* The content of a resolved answer: the client at the root pointer and the
\* client at pointer field 0 ("null": no capability there).
Obj(root, f0) == [root |-> root, f0 |-> f0]
NullObj == Obj("null", "null")

\* An answer: st is none | pending | fulfilled | rejected; queue holds the
\* pipelined calls waiting for it, dq the disembargoes behind them,
\* resultCaps the exports its return carried.  For the record: on is the
\* answer its call was pipelined on (0: none), tr the transform of that
\* target, queued whether the call had to wait in on's queue, embargoes the
\* ids of the senderLoopback disembargoes received for the answer.
NoAnswer ==
    [id |-> 0, st |-> "none", obj |-> NullObj, queue |-> <<>>, dq |-> <<>>,
     resultCaps |-> <<>>, canceled |-> FALSE,
     on |-> 0, tr |-> <<>>, queued |-> FALSE, embargoes |-> <<>>]
\* An export table slot: cl is the client ("none": no entry), refs its count.
NoExport == [cl |-> "none", refs |-> 0]

(* ----------------------------- chanMutex ------------------------------- *)
\* newChanMutex: the channel holds its one token; Lock takes it.
Unlocked == [held |-> FALSE, by |-> "none", n |-> 0]
HeldBy(who, n) == [held |-> TRUE, by |-> who, n |-> n]

\* Bootstrap's first select also waits on manager.finish (line 153).
LockWatchesFinishNaive == FALSE
LockWatchesFinish == TRUE

\* A Bootstrap parked in its first select is woken by the first event:
\* closing finish commits it to the finish case.
WakeFinish(p) ==
    [b \in BProcs |->
        IF p[b] = "parked" /\ LockWatchesFinish THEN "wokeFinish" ELSE p[b]]

InitConn ==
    /\ done = FALSE
    /\ merr = "none"
    /\ mu = Unlocked
    /\ out = <<>>
    /\ tsend = <<>>
    /\ tclose = <<>>
    /\ recvDone = FALSE
    /\ sendDone = FALSE
    /\ finDone = FALSE
    /\ nrecv = 0
    /\ cpc = [c \in CProcs |-> "idle"]
    /\ cret = [c \in CProcs |-> "none"]
    /\ bpc = [b \in BProcs |-> "idle"]
    /\ bres = [b \in BProcs |-> [kind |-> "none", err |-> "none"]]
    /\ bhow = [b \in BProcs |-> "none"]
    /\ ctxDone = [b \in BProcs |-> FALSE]
    /\ qtab = [i \in QIds |-> 0]
    /\ qgen = [next |-> 0, free |-> <<>>]
    /\ qid = [b \in BProcs |-> 0]
    /\ qstate = [b \in BProcs |-> "none"]
    /\ qstarted = [b \in BProcs |-> FALSE]
    /\ qorder = [b \in BProcs |-> 0]
    /\ nalloc = 0
    /\ nfinish = [b \in BProcs |-> 0]
    /\ qparams = [b \in BProcs |-> <<>>]
    /\ qerr = [b \in BProcs |-> ""]
    /\ mainClosed = 0
    /\ atab = [i \in Ids |-> 0]
    /\ ans = [s \in Serials |-> NoAnswer]
    /\ exports = [i \in Ids |-> NoExport]
    /\ egen = [next |-> 0, free |-> <<>>]
    /\ imports = [i \in Ids |-> 0]
    /\ calls = <<>>
    /\ rpc = "idle"
    /\ rmsg = NoMsg
    /\ rq = 0
    /\ panicked = FALSE
    /\ pexp = [i \in Ids |-> NoExport]
    /\ pegen = [next |-> 0, free |-> <<>>]
    /\ pseen = 0
    /\ pbad = FALSE
    /\ delivered = 0

\* NewConn with the MainInterface option.
Init == InitConn /\ mainFunc = "MainInterface"

(* ------------------------------- idgen --------------------------------- *)
\* idgen.next(): a released id when there is one, else a fresh one.
idgenNext(g) == IF g.free # <<>> THEN Head(g.free) ELSE g.next
idgenAfterNext(g) ==
    IF g.free # <<>> THEN [g EXCEPT !.free = Tail(g.free)]
    ELSE [g EXCEPT !.next = g.next + 1]
\* idgen.remove(id): the id goes back to the pool.
idgenRemove(g, id) == [g EXCEPT !.free = <<id>> \o g.free]

\* releaseAllExports: every entry, in id order, gives its id back.
RECURSIVE releaseAllIds(_, _, _)
releaseAllIds(g, exp, i) ==
    IF i > NIds THEN g
    ELSE releaseAllIds(IF exp[i].cl # "none" THEN idgenRemove(g, i) ELSE g,
                       exp, i + 1)

(* --------------------------- question table ---------------------------- *)
\* popQuestion(id): the entry (0 when absent); the slot is cleared and the
\* id released.
popQuestion(id) == IF id \in DOMAIN qtab THEN qtab[id] ELSE 0
qtabAfterPop(id) ==
    IF popQuestion(id) # 0 THEN [qtab EXCEPT ![id] = 0] ELSE qtab
qgenAfterPop(id) ==
    IF popQuestion(id) # 0 THEN idgenRemove(qgen, id) ELSE qgen

(* --------------------------- handler state ----------------------------- *)
\* What a handler running under c.mu reads and writes: the tables, the local
\* calls started, snd the messages it hands to sendMessage, shut the errors
\* it hands to manager.shutdown, panic a nil dereference.
Tables ==
    [atab |-> atab, ans |-> ans, exp |-> exports, egen |-> egen,
     imp |-> imports, calls |-> calls, qtab |-> qtab, qgen |-> qgen,
     qstate |-> qstate, nfinish |-> nfinish, qerr |-> qerr,
     snd |-> <<>>, shut |-> <<>>, panic |-> FALSE]

\* c.sendMessage(m)
sendMessage(T, m) == [T EXCEPT !.snd = Append(@, m)]

\* Lines 687-692: c.abort(err)
abort(T, err) ==
    [sendMessage(T, newAbortMessage(err)) EXCEPT !.shut = Append(@, err)]

\* c.findExport(id)
findExport(T, id) == T.exp[id].cl # "none"

\* A release that takes what is there and reports nothing.
releaseExportQuiet(T, id, refs) ==
    IF ~findExport(T, id) THEN T
    ELSE IF T.exp[id].refs - refs > 0 THEN [T EXCEPT !.exp[id].refs = @ - refs]
    ELSE [T EXCEPT !.exp[id] = NoExport, !.egen = idgenRemove(@, id)]

\* c.releaseExport(id, refs): the count drops by refs; at zero the entry is
\* dropped and the id recycled; dropping below zero is a protocol error.
releaseExport(T, id, refs) ==
    IF ~findExport(T, id) THEN abort(T, "over-release")
    ELSE LET left == T.exp[id].refs - refs
             T1 == IF left > 0 THEN [T EXCEPT !.exp[id].refs = left]
                   ELSE [T EXCEPT !.exp[id] = NoExport,
                                  !.egen = idgenRemove(@, id)]
         IN  IF left < 0 THEN abort(T1, "over-release") ELSE T1

RECURSIVE releaseEach(_, _)
releaseEach(T, ids) ==
    IF ids = <<>> THEN T
    ELSE releaseEach(releaseExport(T, Head(ids), 1), Tail(ids))

\* c.addExport(client): the entry of the same client gets one more
\* reference; else a new entry with one reference is allocated.
exportFor(T, cl) ==
    LET same == {i \in Ids : T.exp[i].cl = cl}
    IN  IF same # {} THEN CHOOSE i \in same : TRUE ELSE idgenNext(T.egen)
addExport(T, cl) ==
    LET id == exportFor(T, cl)
    IN  IF findExport(T, id) THEN [T EXCEPT !.exp[id].refs = @ + 1]
        ELSE [T EXCEPT !.exp[id] = [cl |-> cl, refs |-> 1],
                       !.egen = idgenAfterNext(@)]

\* c.addImport(id): find or create the entry, one more reference.
addImport(T, id) == [T EXCEPT !.imp[id] = @ + 1]

\* Lines 407-424: senderHosted and senderPromise both become imports.
ImportingKindsHostedOnly == {"senderHosted"}
ImportingKinds == {"senderHosted", "senderPromise"}

\* A cap table taken on trust.
populateMessageCapTableTrusting(T, ctab, i) == [t |-> T, err |-> "nil"]

\* Lines 396-454: populateMessageCapTable, descriptor i onwards.
RECURSIVE populateMessageCapTable(_, _, _)
populateMessageCapTable(T, ctab, i) ==
    IF i > Len(ctab) THEN [t |-> T, err |-> "nil"]
    ELSE LET d == ctab[i] IN
         CASE d.k = "none" -> populateMessageCapTable(T, ctab, i + 1)
           [] d.k \in ImportingKinds ->
                populateMessageCapTable(addImport(T, d.id), ctab, i + 1)
           [] d.k = "receiverHosted" ->
                IF findExport(T, d.id)
                THEN populateMessageCapTable(T, ctab, i + 1)
                ELSE [t |-> T, err |-> "unknown export ID"]
           [] d.k = "receiverAnswer" ->
                IF T.atab[d.id] # 0
                THEN populateMessageCapTable(T, ctab, i + 1)
                ELSE [t |-> T, err |-> "unknown answer ID"]
           [] OTHER -> [t |-> T, err |-> "errUnimplemented"]

\* Lines 670-685: promisedAnswerOpsToTransform drops the noop ops.
RECURSIVE promisedAnswerOpsToTransform(_)
promisedAnswerOpsToTransform(list) ==
    IF list = <<>> THEN <<>>
    ELSE IF Head(list).op = "getPointerField"
         THEN <<Head(list).f>> \o promisedAnswerOpsToTransform(Tail(list))
         ELSE promisedAnswerOpsToTransform(Tail(list))

\* Lines 718-731: clientFromResolution(transform, obj, err)
clientFromResolution(transform, obj, failed) ==
    IF failed THEN "error"
    ELSE LET c == IF transform = <<>> THEN obj.root
                  ELSE IF transform = <<0>> THEN obj.f0 ELSE "null"
         IN  IF c = "null" THEN "error" ELSE c

\* c.lockedCall(client, cl) and go joinAnswer(result, answer): a local call
\* is started on client; its outcome will resolve answer s.
lockedCall(T, client, s) ==
    [T EXCEPT !.calls = Append(@, [cl |-> client, s |-> s])]

(* ---------------------------- answer table ----------------------------- *)
\* c.insertAnswer(id, cancel): nil (no change) when the id is in use.
insertAnswer(T, id, s) ==
    [T EXCEPT !.atab[id] = s,
              !.ans[s] = [NoAnswer EXCEPT !.id = id, !.st = "pending"]]

\* The clients a result carries in its cap table.
ObjCaps(obj) ==
    (IF obj.root # "null" THEN <<obj.root>> ELSE <<>>)
    \o (IF obj.f0 # "null" THEN <<obj.f0>> ELSE <<>>)

RECURSIVE addExports(_, _)
addExports(T, cls) ==
    IF cls = <<>> THEN T ELSE addExports(addExport(T, Head(cls)), Tail(cls))

\* makeCapTable of a result: each client becomes senderHosted(export id).
RECURSIVE exportIds(_, _)
exportIds(T, cls) ==
    IF cls = <<>> THEN <<>>
    ELSE <<exportFor(T, Head(cls))>>
         \o exportIds(addExport(T, Head(cls)), Tail(cls))

\* The queued pipelined calls are started, in queue order, on what the
\* answer resolved to.
RECURSIVE drainQueue(_, _, _, _)
drainQueue(T, queue, obj, failed) ==
    IF queue = <<>> THEN T
    ELSE drainQueue(
            lockedCall(T, clientFromResolution(Head(queue).tr, obj, failed),
                       Head(queue).s),
            Tail(queue), obj, failed)

\* Then the queued disembargoes are answered.
RECURSIVE drainDisembargoes(_, _)
drainDisembargoes(T, dq) ==
    IF dq = <<>> THEN T
    ELSE drainDisembargoes(
            sendMessage(T, newDisembargoMessage("receiverLoopback",
                                                Head(dq).id, Head(dq).tgt)),
            Tail(dq))

\* answer.fulfill(obj): the return is sent, the answer resolves, the queue
\* drains, the disembargoes drain last.
fulfill(T, s, obj) ==
    LET a == T.ans[s]
        T1 == addExports(T, ObjCaps(obj))
        ids == exportIds(T, ObjCaps(obj))
        ret == [Msg("return", a.id, "results") EXCEPT
                   !.caps = [i \in DOMAIN ids |-> Desc("senderHosted", ids[i], <<>>)]]
        T2 == [sendMessage(T1, ret) EXCEPT
                   !.ans[s].st = "fulfilled", !.ans[s].obj = obj,
                   !.ans[s].resultCaps = ids,
                   !.ans[s].queue = <<>>, !.ans[s].dq = <<>>]
    IN  drainDisembargoes(drainQueue(T2, a.queue, obj, FALSE), a.dq)

\* answer.reject(err): the same with an exception.
reject(T, s, err) ==
    LET a == T.ans[s]
        T2 == [sendMessage(T, newReturnException(a.id, err)) EXCEPT
                   !.ans[s].st = "rejected",
                   !.ans[s].queue = <<>>, !.ans[s].dq = <<>>]
    IN  drainDisembargoes(drainQueue(T2, a.queue, NullObj, TRUE), a.dq)

(* ------------------------------- Close --------------------------------- *)
\* Line 125: Close goes on only when its shutdown call won.
CloseWinsAlways == TRUE
CloseWins == shutdownWins

CloseShutdown(c) ==
    /\ cpc[c] = "idle"
    /\ IF CloseWins
       THEN /\ cpc' = [cpc EXCEPT ![c] = "wait"]
            /\ UNCHANGED cret
       ELSE /\ cpc' = [cpc EXCEPT ![c] = "done"]
            /\ cret' = [cret EXCEPT ![c] = "ErrConnClosed"]
    /\ done' = TRUE
    /\ merr' = shutdownErr("ErrConnClosed")
    /\ bpc' = WakeFinish(bpc)
    /\ UNCHANGED <<mu, ioVars, taskVars, bres, bhow, ctxDone, qVars>>
    /\ UNCHANGED hVars

\* Line 128: c.manager.wait()
CloseWait(c) ==
    /\ cpc[c] = "wait"
    /\ waitReturns
    /\ cpc' = [cpc EXCEPT ![c] = "hangup"]
    /\ UNCHANGED <<mgrVars, mu, ioVars, taskVars, cret, bootVars, qVars>>
    /\ UNCHANGED hVars

\* Lines 131-133: the abort is handed to the transport; the write may fail.
CloseSendAbort(c) ==
    /\ cpc[c] = "hangup"
    /\ tsend' = Append(tsend, newAbortMessage("errShutdown"))
    /\ \E werr \in BOOLEAN :
          cpc' = [cpc EXCEPT ![c] = IF werr THEN "closeWerr" ELSE "closeOk"]
    /\ UNCHANGED <<mgrVars, mu, out, tclose, taskVars, cret, bootVars, qVars>>
    /\ UNCHANGED hVars

\* Lines 134-141: transport.Close is called whatever the write returned.
CloseTransport(c) ==
    /\ cpc[c] \in {"closeWerr", "closeOk"}
    /\ tclose' = Append(tclose, c)
    /\ \E cerr \in BOOLEAN :
          cret' = [cret EXCEPT ![c] =
                      IF cpc[c] = "closeWerr" THEN "werr"
                      ELSE IF cerr THEN "cerr" ELSE "nil"]
    /\ cpc' = [cpc EXCEPT ![c] = "done"]
    /\ UNCHANGED <<mgrVars, mu, out, tsend, taskVars, bootVars, qVars>>
    /\ UNCHANGED hVars

(* ----------------------------- Bootstrap ------------------------------- *)
ErrorClient(e) == [kind |-> "error", err |-> e]
PipelineClient(b) == [kind |-> "pipeline", err |-> "none"]

\* Lines 148-150 and 161: the mutex is held from the first select to the
\* return, so that allocation and enqueue are one step for everyone else.
BootstrapHoldsMutexNot(b) == Unlocked
BootstrapHoldsMutex(b) == HeldBy("Bootstrap", b)

\* Line 157: q := c.newQuestion(ctx, nil), under the mutex.
LockAndNewQuestion(b, how) ==
    /\ mu' = BootstrapHoldsMutex(b)
    /\ bpc' = [bpc EXCEPT ![b] = "locked"]
    /\ bhow' = [bhow EXCEPT ![b] = how]
    /\ qid' = [qid EXCEPT ![b] = idgenNext(qgen)]
    /\ qtab' = [qtab EXCEPT ![idgenNext(qgen)] = b]
    /\ qgen' = idgenAfterNext(qgen)
    /\ qstate' = [qstate EXCEPT ![b] = "pending"]
    /\ nalloc' = nalloc + 1
    /\ qorder' = [qorder EXCEPT ![b] = nalloc + 1]
    /\ UNCHANGED <<bres, qstarted, nfinish, qparams, qerr>>

\* Lines 147-155: the first select.  Of the cases that can proceed one is
\* taken; when none can, the call parks.
BootstrapSelect(b) ==
    /\ bpc[b] = "idle"
    /\ \/ /\ mu = Unlocked
          /\ LockAndNewQuestion(b, "mu")
       \/ /\ ctxDone[b]
          /\ bpc' = [bpc EXCEPT ![b] = "done"]
          /\ bres' = [bres EXCEPT ![b] = ErrorClient("ctx")]
          /\ bhow' = [bhow EXCEPT ![b] = "ctx"]
          /\ UNCHANGED <<mu, qVars>>
       \/ /\ done
          /\ LockWatchesFinish
          /\ bpc' = [bpc EXCEPT ![b] = "done"]
          /\ bres' = [bres EXCEPT ![b] = ErrorClient(merr)]
          /\ bhow' = [bhow EXCEPT ![b] = "finish"]
          /\ UNCHANGED <<mu, qVars>>
       \/ /\ mu # Unlocked /\ ~ctxDone[b] /\ ~(done /\ LockWatchesFinish)
          /\ bpc' = [bpc EXCEPT ![b] = "parked"]
          /\ UNCHANGED <<mu, bres, bhow, qVars>>
    /\ UNCHANGED <<mgrVars, ioVars, taskVars, closeVars, ctxDone>>
    /\ UNCHANGED hVars

\* A parked call receives the mutex token.
BootstrapWakeMu(b) ==
    /\ bpc[b] = "parked"
    /\ mu = Unlocked
    /\ LockAndNewQuestion(b, "parkedMu")
    /\ UNCHANGED <<mgrVars, ioVars, taskVars, closeVars, ctxDone>>
    /\ UNCHANGED hVars

\* A parked call woken by ctx.Done (line 152) or by finish (line 154).
BootstrapWoken(b) ==
    /\ bpc[b] \in {"wokeCtx", "wokeFinish"}
    /\ bpc' = [bpc EXCEPT ![b] = "done"]
    /\ bres' = [bres EXCEPT ![b] =
                   IF bpc[b] = "wokeCtx" THEN ErrorClient("ctx")
                   ELSE ErrorClient(merr)]
    /\ bhow' = [bhow EXCEPT ![b] =
                   IF bpc[b] = "wokeCtx" THEN "parkedCtx" ELSE "parkedFinish"]
    /\ UNCHANGED <<mgrVars, mu, ioVars, taskVars, closeVars, ctxDone, qVars>>
    /\ UNCHANGED hVars

\* The caller cancels the context it passed to Bootstrap.
CancelCtx(b) ==
    /\ ~ctxDone[b]
    /\ ctxDone' = [ctxDone EXCEPT ![b] = TRUE]
    /\ bpc' = [bpc EXCEPT ![b] = IF bpc[b] = "parked" THEN "wokeCtx" ELSE bpc[b]]
    /\ UNCHANGED <<mgrVars, mu, ioVars, taskVars, closeVars, bres, bhow, qVars>>
    /\ UNCHANGED hVars

\* Line 165: c.out <- msg
Enqueue(q, m) == Append(q, m)

\* Lines 169 and 172: the failed question is popped.
PopOnFailureSkipped(b) == qtab
PopOnFailure(b) == qtabAfterPop(qid[b])

\* Lines 164-174: the second select, then the deferred Unlock (line 150).
BootstrapEnqueue(b) ==
    /\ bpc[b] = "locked"
    /\ \/ /\ Len(out) < SendBuf
          /\ out' = Enqueue(out, newBootstrapMessage(qid[b], b))
          /\ qstarted' = [qstarted EXCEPT ![b] = TRUE]
          /\ bres' = [bres EXCEPT ![b] = PipelineClient(b)]
          /\ UNCHANGED <<qtab, qgen>>
       \/ /\ ctxDone[b]
          /\ qtab' = PopOnFailure(b)
          /\ qgen' = qgenAfterPop(qid[b])
          /\ bres' = [bres EXCEPT ![b] = ErrorClient("ctx")]
          /\ UNCHANGED <<out, qstarted>>
       \/ /\ done
          /\ qtab' = PopOnFailure(b)
          /\ qgen' = qgenAfterPop(qid[b])
          /\ bres' = [bres EXCEPT ![b] = ErrorClient(merr)]
          /\ UNCHANGED <<out, qstarted>>
    /\ mu' = Unlocked
    /\ bpc' = [bpc EXCEPT ![b] = "done"]
    /\ UNCHANGED <<mgrVars, tsend, tclose, taskVars, closeVars, bhow, ctxDone,
                   qid, qstate, qorder, nalloc, nfinish, qparams, qerr>>
    /\ UNCHANGED hVars

(* ----------------------- background tasks ------------------------------ *)
\* dispatchSend: one message leaves c.out for the transport.
SendLoopSend ==
    /\ ~sendDone
    /\ out # <<>>
    /\ tsend' = Append(tsend, Head(out))
    /\ out' = Tail(out)
    /\ UNCHANGED <<mgrVars, mu, tclose, taskVars, closeVars, bootVars, qVars>>
    /\ UNCHANGED hVars

\* dispatchSend: the transport write failed.
SendLoopFail ==
    /\ ~sendDone
    /\ ~done
    /\ out # <<>>
    /\ tsend' = Append(tsend, Head(out))
    /\ out' = Tail(out)
    /\ sendDone' = TRUE
    /\ done' = TRUE
    /\ merr' = shutdownErr("transport")
    /\ bpc' = WakeFinish(bpc)
    /\ UNCHANGED <<mu, tclose, recvDone, finDone, nrecv, closeVars,
                   bres, bhow, ctxDone, qVars>>
    /\ UNCHANGED hVars

\* dispatchSend returns once finish is closed.
SendLoopExit ==
    /\ ~sendDone
    /\ done
    /\ sendDone' = TRUE
    /\ UNCHANGED <<mgrVars, mu, ioVars, recvDone, finDone, nrecv, closeVars,
                   bootVars, qVars>>
    /\ UNCHANGED hVars

\* dispatchRecv: transport.RecvMessage failed.
RecvFail ==
    /\ ~recvDone
    /\ rpc = "idle"
    /\ ~panicked
    /\ ~done
    /\ recvDone' = TRUE
    /\ done' = TRUE
    /\ merr' = shutdownErr("transport")
    /\ bpc' = WakeFinish(bpc)
    /\ UNCHANGED <<mu, ioVars, sendDone, finDone, nrecv, closeVars,
                   bres, bhow, ctxDone, qVars>>
    /\ UNCHANGED hVars

\* dispatchRecv returns once finish is closed.
RecvExit ==
    /\ ~recvDone
    /\ rpc = "idle"
    /\ ~panicked
    /\ done
    /\ recvDone' = TRUE
    /\ UNCHANGED <<mgrVars, mu, ioVars, sendDone, finDone, nrecv, closeVars,
                   bootVars, qVars>>
    /\ UNCHANGED hVars

\* Lines 184-191: an abort from the peer shuts the manager down.
RecvAbort ==
    /\ ~recvDone
    /\ rpc = "idle"
    /\ ~panicked
    /\ nrecv < MaxRecv
    /\ nrecv' = nrecv + 1
    /\ done' = TRUE
    /\ merr' = shutdownErr("Abort")
    /\ bpc' = WakeFinish(bpc)
    /\ UNCHANGED <<mu, ioVars, recvDone, sendDone, finDone, closeVars,
                   bres, bhow, ctxDone, qVars>>
    /\ UNCHANGED hVars

\* Lines 100-111: the finalizer waits for finish, then takes the mutex.
Finalizer ==
    /\ ~finDone
    /\ done
    /\ mu = Unlocked
    /\ finDone' = TRUE
    /\ exports' = [i \in Ids |-> NoExport]
    /\ egen' = releaseAllIds(egen, exports, 0)
    /\ mainClosed' = IF mainFunc = "MainInterface" THEN mainClosed + 1
                     ELSE mainClosed
    /\ UNCHANGED <<mgrVars, mu, ioVars, recvDone, sendDone, nrecv, closeVars,
                   bootVars, qVars, mainFunc, atab, ans, imports, calls,
                   recvVars, peerVars>>

(* ------------------------- message handlers ---------------------------- *)
\* Lines 479-480: insertAnswer returns nil when the id is in the table.
idReusedNever(T, id) == FALSE
idReused(T, id) == T.atab[id] # 0

\* Lines 487-493: there is no factory, or the factory returned an error.
noMainNever(failed) == FALSE
noMain(failed) == mainFunc = "none" \/ failed

\* Lines 476-501: handleBootstrapMessage(id); s numbers the new answer,
\* failed says that a BootstrapFunc returned an error.
handleBootstrapMessage(T, id, s, failed) ==
    IF idReused(T, id)
    THEN sendMessage(T, newReturnException(id, "question ID reused"))
    ELSE LET T1 == insertAnswer(T, id, s) IN
         IF noMain(failed)
         THEN reject(T1, s, "no main interface")
         ELSE fulfill(T1, s, Obj("main", "null"))

\* Line 585: pa.peek() says the promised answer has resolved.
peekDoneAlways(a) == TRUE
peekDone(a) == a.st # "pending"

\* Routing that never fails.
routeCallMessageLenient(T, s, mt) == [t |-> T, err |-> "nil"]

\* Lines 556-596: routeCallMessage(result, mt, cl)
routeCallMessage(T, s, mt) ==
    IF mt.k = "importedCap"
    THEN IF ~findExport(T, mt.id) THEN [t |-> T, err |-> "bad target"]
         ELSE [t |-> lockedCall(T, T.exp[mt.id].cl, s), err |-> "nil"]
    ELSE IF mt.id = T.ans[s].id \/ T.atab[mt.id] = 0
         THEN [t |-> T, err |-> "bad target"]
         ELSE LET pa == T.atab[mt.id]
                  transform == promisedAnswerOpsToTransform(mt.tr)
              IN  IF peekDone(T.ans[pa])
                  THEN [t |-> lockedCall(T,
                                  clientFromResolution(transform, T.ans[pa].obj,
                                      T.ans[pa].st # "fulfilled"), s),
                        err |-> "nil"]
                  ELSE [t |-> [T EXCEPT !.ans[pa].queue =
                                  Append(@, [tr |-> transform, s |-> s]),
                                        !.ans[s].queued = TRUE],
                        err |-> "nil"]

\* Lines 505-554: handleCallMessage(m)
handleCallMessage(T, m, s) ==
    IF m.tgt.k \notin {"importedCap", "promisedAnswer"}
    THEN sendMessage(T, newUnimplementedMessage(m))
    ELSE LET P == populateMessageCapTable(T, m.caps, 1) IN
         IF P.err = "errUnimplemented"
         THEN sendMessage(P.t, newUnimplementedMessage(m))
         ELSE IF P.err # "nil" THEN abort(P.t, P.err)
         ELSE IF P.t.atab[m.id] # 0 THEN abort(P.t, "question ID reused")
         ELSE LET on == IF m.tgt.k = "promisedAnswer" /\ m.tgt.id # m.id
                        THEN P.t.atab[m.tgt.id] ELSE 0
                  T1 == [insertAnswer(P.t, m.id, s) EXCEPT
                            !.ans[s].on = on,
                            !.ans[s].tr = promisedAnswerOpsToTransform(m.tgt.tr)]
                  R == routeCallMessage(T1, s, m.tgt)
              IN  IF R.err # "nil" THEN reject(R.t, s, R.err) ELSE R.t

\* Lines 631-639: the reply goes out at once only when nothing was queued.
replyNowAlways(queued) == TRUE
replyNow(queued) == ~queued

\* A handler that finds no fault with any disembargo.
handleDisembargoMessageForgiving(T, m) == [t |-> T, err |-> "nil"]

\* Lines 598-648: handleDisembargoMessage(msg); m.arg is the context.
handleDisembargoMessage(T, m) ==
    IF m.arg = "malformed" THEN [t |-> T, err |-> "decode"]
    ELSE IF m.arg = "senderLoopback"
    THEN IF m.tgt.k # "promisedAnswer"
         THEN [t |-> T, err |-> "errDisembargoNonImport"]
         ELSE IF T.atab[m.tgt.id] = 0
         THEN [t |-> T, err |-> "errDisembargoMissingAnswer"]
         ELSE LET a == T.atab[m.tgt.id]
                  queued == T.ans[a].st = "pending"
                  T0 == [T EXCEPT !.ans[a].embargoes = Append(@, m.n)]
                  T1 == IF queued
                        THEN [T0 EXCEPT !.ans[a].dq =
                                 Append(@, [id |-> m.n, tgt |-> m.tgt])]
                        ELSE T0
              IN  [t |-> IF replyNow(queued)
                         THEN sendMessage(T1,
                                 newDisembargoMessage("receiverLoopback",
                                                      m.n, m.tgt))
                         ELSE T1,
                   err |-> "nil"]
    ELSE IF m.arg = "receiverLoopback" THEN [t |-> T, err |-> "nil"]
    ELSE [t |-> sendMessage(T, newUnimplementedMessage(m)), err |-> "nil"]

\* Lines 201-218: finish; popAnswer returns nil for an unknown id, and
\* a.cancel() on nil stops the goroutine.
handleFinish(T, id, rel) ==
    IF T.atab[id] = 0 THEN [T EXCEPT !.panic = TRUE]
    ELSE LET s == T.atab[id]
             T1 == [T EXCEPT !.atab[id] = 0, !.ans[s].canceled = TRUE]
         IN  IF rel THEN releaseEach(T1, T.ans[s].resultCaps) ELSE T1

\* Line 250: refs := int(rel.ReferenceCount())
ReleaseRefsOne(m) == 1
ReleaseRefs(m) == m.n

\* Lines 243-254: release
handleRelease(T, m) == releaseExport(T, m.id, ReleaseRefs(m))

(* ------------------------ receive loop actions ------------------------- *)
SubsequenceAt(sq, keep) ==
    LET F[i \in 0..Len(sq)] ==
            IF i = 0 THEN <<>>
            ELSE IF i \in keep THEN Append(F[i - 1], sq[i]) ELSE F[i - 1]
    IN  F[Len(sq)]

\* The handler's effect takes place.  sendMessage waits for room in c.out,
\* which the send loop makes by passing the oldest messages on; once finish
\* is closed a message may be given up instead.
Commit(T) ==
    /\ \E keep \in SUBSET (1..Len(T.snd)) :
          LET all == out \o SubsequenceAt(T.snd, keep)
              k == IF Len(all) > SendBuf THEN Len(all) - SendBuf ELSE 0
          IN  /\ ~done => keep = 1..Len(T.snd)
              /\ k > 0 => ~sendDone
              /\ tsend' = tsend \o SubSeq(all, 1, k)
              /\ out' = SubSeq(all, k + 1, Len(all))
    /\ done' = (done \/ T.shut # <<>>)
    /\ merr' = IF T.shut # <<>> THEN shutdownErr(Head(T.shut)) ELSE merr
    /\ bpc' = IF T.shut # <<>> THEN WakeFinish(bpc) ELSE bpc
    /\ atab' = T.atab
    /\ ans' = T.ans
    /\ exports' = T.exp
    /\ egen' = T.egen
    /\ imports' = T.imp
    /\ calls' = T.calls
    /\ qtab' = T.qtab
    /\ qgen' = T.qgen
    /\ qstate' = T.qstate
    /\ nfinish' = T.nfinish
    /\ qerr' = T.qerr
    /\ panicked' = T.panic
    /\ UNCHANGED <<tclose, recvDone, sendDone, finDone, closeVars,
                   bres, bhow, ctxDone, qid, qstarted, qorder, nalloc, qparams,
                   cfgVars>>

\* handleMessage returns: c.mu.Unlock(), unless the goroutine has died
\* holding it; the message buffer is let go.
HandlerDone(T) ==
    /\ Commit(T)
    /\ mu' = IF T.panic THEN HeldBy("recv", 0) ELSE Unlocked
    /\ rpc' = "idle"
    /\ rmsg' = NoMsg
    /\ rq' = 0

\* dispatchRecv got a message, and handleMessage can take c.mu.
RecvReady ==
    /\ ~recvDone
    /\ ~panicked
    /\ rpc = "idle"
    /\ nrecv < MaxRecv
    /\ mu = Unlocked

\* The peer numbers its questions as the protocol says: the least id that
\* is not in use.
PeerIds == 0..(NIds - 1)
InUse == {a \in PeerIds : atab[a] # 0}
FreshIds ==
    IF InUse = PeerIds THEN {}
    ELSE {CHOOSE a \in PeerIds \ InUse : \A x \in PeerIds \ InUse : a <= x}
WireTransforms == {<<>>, <<Noop, GetPointerField(0)>>}

RecvBootstrap ==
    /\ RecvReady
    /\ UNCHANGED peerVars
    /\ nrecv' = nrecv + 1
    /\ \E id \in FreshIds :
       \E failed \in (IF mainFunc = "BootstrapFunc" THEN BOOLEAN ELSE {FALSE}) :
          HandlerDone(handleBootstrapMessage(Tables, id, nrecv + 1, failed))

\* The targets of the peer's calls: an export it holds or one it does not,
\* an answer in the table or the call's own, and a kind that is not known.
CallTargets(id) ==
    {Target("importedCap", e, <<>>) :
        e \in {x \in Ids : exports[x].cl # "none"} \cup {NIds}}
    \cup {Target("promisedAnswer", a, tr) :
            a \in InUse \cup {id}, tr \in WireTransforms}
    \cup {Target("other", 0, <<>>)}

callMessage(id, tgt, caps) ==
    [Msg("call", id, "") EXCEPT !.tgt = tgt, !.caps = caps]

RecvCall ==
    /\ RecvReady
    /\ UNCHANGED peerVars
    /\ nrecv' = nrecv + 1
    /\ \E id \in FreshIds :
       \E tgt \in CallTargets(id) :
          HandlerDone(handleCallMessage(Tables, callMessage(id, tgt, <<>>),
                                        nrecv + 1))

\* The peer finishes a question it has asked, or one it has not.
RecvFinish ==
    /\ RecvReady
    /\ UNCHANGED peerVars
    /\ nrecv' = nrecv + 1
    /\ \E id \in InUse \cup FreshIds, rel \in BOOLEAN :
          HandlerDone(handleFinish(Tables, id, rel))

releaseMessage(id, n) == [Msg("release", id, "") EXCEPT !.n = n]

RecvRelease ==
    /\ RecvReady
    /\ UNCHANGED peerVars
    /\ nrecv' = nrecv + 1
    /\ \E id \in Ids, n \in 1..MaxRefs :
          /\ Commit(handleRelease(Tables, releaseMessage(id, n)))
          /\ rmsg' = releaseMessage(id, n)
    /\ rq' = 0
    /\ UNCHANGED <<mu, rpc>>

DisembargoContexts == {"senderLoopback", "receiverLoopback", "accept"}
DisembargoTargets ==
    {Target("promisedAnswer", a, <<>>) : a \in InUse \cup FreshIds}
    \cup {Target("importedCap", 0, <<>>)}
\* The peer numbers its embargoes; here by the rank of the message.
disembargoMessage(ctx, id, tgt) ==
    [Msg("disembargo", 0, ctx) EXCEPT !.n = id, !.tgt = tgt]

\* Lines 255-263: a failed disembargo aborts the connection.
RecvDisembargo ==
    /\ RecvReady
    /\ UNCHANGED peerVars
    /\ nrecv' = nrecv + 1
    /\ \E ctx \in DisembargoContexts, tgt \in DisembargoTargets :
          LET m == disembargoMessage(ctx, nrecv + 1, tgt)
              R == handleDisembargoMessage(Tables, m)
          IN  HandlerDone(IF R.err # "nil" THEN abort(R.t, R.err) ELSE R.t)

\* joinAnswer: a local call returns and resolves its answer, under c.mu.
JoinAnswer(s) ==
    /\ mu = Unlocked
    /\ ~panicked
    /\ ans[s].st = "pending"
    /\ \E i \in DOMAIN calls :
          /\ calls[i].s = s
          /\ \/ /\ calls[i].cl # "error"
                /\ Commit(fulfill(Tables, s, Obj("null", "obj")))
             \/ Commit(reject(Tables, s, "call failed"))
    /\ UNCHANGED <<mu, nrecv, recvVars, peerVars>>

(* ------------------------ messages out of order ------------------------ *)
\* handleMessage returns as in HandlerDone; m, the message it was given, is
\* kept for the record.
Taken(T, m) ==
    /\ Commit(T)
    /\ mu' = IF T.panic THEN HeldBy("recv", 0) ELSE Unlocked
    /\ rpc' = "idle"
    /\ rmsg' = m
    /\ rq' = 0

\* An id the peer has not used for a question, other than id.
UnusedIds(id) ==
    LET free == (PeerIds \ InUse) \ {id}
    IN  IF free = {} THEN {}
        ELSE {CHOOSE a \in free : \A x \in free : a <= x}

\* The peer's bootstrap with any question id, in use or not.
RecvBootstrapAny ==
    /\ RecvReady
    /\ nrecv < MaxProbes
    /\ UNCHANGED peerVars
    /\ nrecv' = nrecv + 1
    /\ \E id \in InUse \cup FreshIds :
       \E failed \in (IF mainFunc = "BootstrapFunc" THEN BOOLEAN ELSE {FALSE}) :
          Taken(handleBootstrapMessage(Tables, id, nrecv + 1, failed),
                [newBootstrapMessage(id, 0) EXCEPT !.rel = failed])

\* The peer's finish for any answer id, in the table or not.
RecvFinishAny ==
    /\ RecvReady
    /\ nrecv < MaxProbes
    /\ UNCHANGED peerVars
    /\ nrecv' = nrecv + 1
    /\ \E id \in InUse \cup FreshIds, rel \in BOOLEAN :
          Taken(handleFinish(Tables, id, rel), newFinishMessage(id, rel, 0))

\* Context variants of a disembargo, and one that cannot be decoded.
DisembargoContextsAny ==
    {"senderLoopback", "receiverLoopback", "accept", "provide", "malformed"}

\* Lines 255-263: the peer's disembargo with any context; a failed one
\* aborts the connection.
RecvDisembargoAny ==
    /\ RecvReady
    /\ nrecv < MaxProbes
    /\ UNCHANGED peerVars
    /\ nrecv' = nrecv + 1
    /\ \E ctx \in DisembargoContextsAny, tgt \in DisembargoTargets :
          LET m == disembargoMessage(ctx, nrecv + 1, tgt)
              R == handleDisembargoMessage(Tables, m)
          IN  Taken(IF R.err # "nil" THEN abort(R.t, R.err) ELSE R.t, m)

\* Cap tables that name exports and answers of this side, some of them not
\* in the tables.
CallCaps(id) ==
    {<<>>,
     <<Desc("receiverHosted", 0, <<>>)>>,
     <<Desc("receiverHosted", NIds, <<>>)>>,
     <<Desc("senderHosted", 0, <<>>), Desc("receiverAnswer", id, <<>>)>>}

\* The peer's call with any target and any of these cap tables.
RecvCallAny ==
    /\ RecvReady
    /\ nrecv < MaxProbes
    /\ UNCHANGED peerVars
    /\ nrecv' = nrecv + 1
    /\ \E id \in FreshIds :
       \E tgt \in CallTargets(id)
                  \cup {Target("promisedAnswer", a, <<>>) : a \in UnusedIds(id)},
          caps \in CallCaps(id) :
          LET m == callMessage(id, tgt, caps)
          IN  Taken(handleCallMessage(Tables, m, nrecv + 1), m)

(* ----------------------- handling across shutdown ---------------------- *)
\* dispatchRecv hands one message of the peer to handleMessage while the
\* manager runs; the handler has not taken c.mu yet (lines 227, 236).
RecvTake ==
    /\ ~recvDone
    /\ ~panicked
    /\ rpc = "idle"
    /\ ~done
    /\ nrecv < MaxRecv
    /\ nrecv' = nrecv + 1
    /\ rpc' = "taken"
    /\ \E id \in FreshIds :
          \/ rmsg' = newBootstrapMessage(id, 0)
          \/ \E e \in {x \in Ids : exports[x].cl # "none"} :
                rmsg' = callMessage(id, Target("importedCap", e, <<>>), <<>>)
    /\ UNCHANGED <<mgrVars, mu, ioVars, recvDone, sendDone, finDone,
                   closeVars, bootVars, qVars, cfgVars, tabVars, rq, panicked,
                   peerVars>>

\* c.mu.Lock() of lines 227 and 236 waits for the mutex only; then the
\* handler runs to its end and unlocks.
RecvHandle ==
    /\ rpc = "taken"
    /\ mu = Unlocked
    /\ UNCHANGED <<nrecv, peerVars>>
    /\ Taken(IF rmsg.kind = "bootstrap"
             THEN handleBootstrapMessage(Tables, rmsg.id, nrecv, FALSE)
             ELSE handleCallMessage(Tables, rmsg, nrecv),
             rmsg)

(* ------------------------------ imports -------------------------------- *)
\* The peer runs the same export table: its entries, its id pool.
PeerTables == [Tables EXCEPT !.exp = pexp, !.egen = pegen]
PeerClients == {"pa", "pb"}
CapChoices ==
    UNION {[1..n -> [cl : PeerClients, k : {"senderHosted", "senderPromise"}]] :
             n \in 1..MaxCaps}

\* The peer puts its clients in a cap table: each gets one more reference
\* in the peer's export table and a descriptor with its export id.
RECURSIVE peerCapTable(_, _, _)
peerCapTable(PT, ch, i) ==
    IF i > Len(ch) THEN [pt |-> PT, caps |-> <<>>]
    ELSE LET R == peerCapTable(addExport(PT, ch[i].cl), ch, i + 1)
         IN  [pt |-> R.pt,
              caps |-> <<Desc(ch[i].k, exportFor(PT, ch[i].cl), <<>>)>> \o R.caps]

\* A call of the peer whose parameters carry capabilities of the peer.
RecvCallCaps ==
    /\ RecvReady
    /\ nrecv' = nrecv + 1
    /\ \E id \in FreshIds, ch \in CapChoices :
       \E e \in {x \in Ids : exports[x].cl # "none"} :
          LET P == peerCapTable(PeerTables, ch, 1)
              m == callMessage(id, Target("importedCap", e, <<>>), P.caps)
          IN  /\ HandlerDone(handleCallMessage(Tables, m, nrecv + 1))
              /\ pexp' = P.pt.exp
              /\ pegen' = P.pt.egen
              /\ delivered' = delivered + Len(ch)
    /\ UNCHANGED <<pseen, pbad>>

\* The last local reference to import i is dropped: the entry goes and a
\* release carrying its count is sent, under c.mu.
DropImport(i) ==
    /\ mu = Unlocked
    /\ ~panicked
    /\ imports[i] > 0
    /\ Commit(sendMessage([Tables EXCEPT !.imp[i] = 0],
                          releaseMessage(i, imports[i])))
    /\ UNCHANGED <<mu, nrecv, recvVars, peerVars>>

\* The peer takes the next message off the transport; a release goes
\* through its release case.
PeerRecv ==
    /\ pseen < Len(tsend)
    /\ pseen' = pseen + 1
    /\ LET m == tsend[pseen + 1]
           R == handleRelease(PeerTables, m)
       IN  IF m.kind = "release"
           THEN /\ pexp' = R.exp
                /\ pegen' = R.egen
                /\ pbad' = (pbad \/ R.shut # <<>>)
           ELSE UNCHANGED <<pexp, pegen, pbad>>
    /\ UNCHANGED <<mgrVars, mu, ioVars, taskVars, closeVars, bootVars, qVars,
                   cfgVars, tabVars, recvVars, delivered>>

(* ------------------------- questions and returns ----------------------- *)
\* question.fulfill and question.reject(questionResolved, err): the one
\* transition out of pending; a no-op afterwards.
questionResolve(T, b) ==
    IF T.qstate[b] = "pending" THEN [T EXCEPT !.qstate[b] = "resolved"] ELSE T

\* q.fulfill(content) and q.reject(questionResolved, err): the first
\* transition out of pending keeps its outcome.
questionSettle(T, b, err) ==
    [questionResolve(T, b) EXCEPT
        !.qerr[b] = IF T.qstate[b] = "pending" THEN err ELSE @]

\* Lines 381-382: fin := newFinishMessage(nil, id, releaseResultCaps)
sendFinish(T, id, rel, b) ==
    [sendMessage(T, newFinishMessage(id, rel, b)) EXCEPT !.nfinish[b] = @ + 1]

\* question.start(): from now on a canceled context cancels the question.
\* The state is guarded by the question's own lock, not by c.mu.
QuestionCancel(b) ==
    /\ qstarted[b]
    /\ ctxDone[b]
    /\ qstate[b] = "pending"
    /\ ~done
    /\ qstate' = [qstate EXCEPT ![b] = "canceling"]
    /\ UNCHANGED <<mgrVars, mu, ioVars, taskVars, closeVars, bootVars,
                   qtab, qgen, qid, qstarted, qorder, nalloc, nfinish,
                   qparams, qerr>>
    /\ UNCHANGED hVars

\* The canceled question sends finish{releaseResultCaps = true}; after
\* shutdown the message may be given up.
QuestionCancelSend(b) ==
    /\ qstate[b] = "canceling"
    /\ qstate' = [qstate EXCEPT ![b] = "canceled"]
    /\ \/ /\ Len(out) < SendBuf
          /\ out' = Enqueue(out, newFinishMessage(qid[b], TRUE, b))
          /\ nfinish' = [nfinish EXCEPT ![b] = @ + 1]
       \/ /\ done
          /\ UNCHANGED <<out, nfinish>>
    /\ UNCHANGED <<mgrVars, mu, tsend, tclose, taskVars, closeVars, bootVars,
                   qtab, qgen, qid, qstarted, qorder, nalloc, qparams, qerr>>
    /\ UNCHANGED hVars

\* The cap tables a return's results may carry.
ReturnCaps ==
    {<<>>, <<Desc("senderHosted", 0, <<>>)>>, <<Desc("senderPromise", 0, <<>>)>>,
     <<Desc("receiverHosted", 0, <<>>)>>, <<Desc("thirdPartyHosted", 0, <<>>)>>}
ReturnVariants == {"results", "exception", "canceled", "takeFromOtherQuestion"}
returnMessage(id, variant, caps) ==
    [Msg("return", id, variant) EXCEPT !.caps = caps]

\* Lines 192-195 and 309-330: c.mu.Lock(), the question is popped and its
\* state read.  The questions here are bootstraps, with no paramCaps.
ReturnPop ==
    /\ RecvReady
    /\ nrecv' = nrecv + 1
    /\ \E id \in QIds, variant \in ReturnVariants :
       \E caps \in (IF variant = "results" THEN ReturnCaps ELSE {<<>>}) :
          LET b == popQuestion(id) IN
          /\ qtab' = qtabAfterPop(id)
          /\ qgen' = qgenAfterPop(id)
          /\ IF b = 0 \/ qstate[b] \in {"canceling", "canceled"}
             THEN UNCHANGED <<mu, recvVars>>
             ELSE /\ mu' = HeldBy("recv", 0)
                  /\ rpc' = "return"
                  /\ rmsg' = returnMessage(id, variant, caps)
                  /\ rq' = b
                  /\ UNCHANGED panicked
    /\ UNCHANGED <<mgrVars, ioVars, recvDone, sendDone, finDone, closeVars,
                   bootVars, qid, qstate, qstarted, qorder, nalloc, nfinish,
                   qparams, qerr,
                   cfgVars, tabVars, peerVars>>

\* Lines 331-383: the switch on the variant, and the finish.
handleReturnVariant(T, m, b) ==
    IF m.arg = "results"
    THEN LET P == populateMessageCapTable(T, m.caps, 1) IN
         IF P.err = "errUnimplemented"
         THEN sendMessage(P.t, newUnimplementedMessage(m))
         ELSE IF P.err # "nil" THEN abort(P.t, P.err)
         ELSE sendFinish(questionSettle(P.t, b, "nil"), m.id, FALSE, b)
    ELSE IF m.arg = "exception"
    THEN sendFinish(questionSettle(T, b, "exception"), m.id, TRUE, b)
    ELSE IF m.arg = "canceled"
    THEN questionSettle(T, b, "receiver reported canceled")
    ELSE sendMessage(T, newUnimplementedMessage(m))

\* The rest of handleReturnMessage, then c.mu.Unlock() (line 196).
ReturnResolve ==
    /\ rpc = "return"
    /\ HandlerDone(handleReturnVariant(Tables, rmsg, rq))
    /\ UNCHANGED <<nrecv, peerVars>>

(* ------------------------- calls of this side -------------------------- *)
\* A local call that passes a capability: under c.mu a question with a
\* method is allocated, the capability is exported and its export id kept
\* in paramCaps, the call is put on c.out and the question is started.
SendCall(b) ==
    /\ bpc[b] = "idle"
    /\ mu = Unlocked
    /\ ~done
    /\ Len(out) < SendBuf
    /\ LET id == idgenNext(qgen)
           e == exportFor(Tables, "param")
           T == addExport(Tables, "param")
       IN  /\ qid' = [qid EXCEPT ![b] = id]
           /\ qtab' = [qtab EXCEPT ![id] = b]
           /\ qgen' = idgenAfterNext(qgen)
           /\ qparams' = [qparams EXCEPT ![b] = <<e>>]
           /\ exports' = T.exp
           /\ egen' = T.egen
           /\ out' = Enqueue(out,
                 [callMessage(id, Target("importedCap", 0, <<>>),
                              <<Desc("senderHosted", e, <<>>)>>)
                     EXCEPT !.q = b])
    /\ qstate' = [qstate EXCEPT ![b] = "pending"]
    /\ qstarted' = [qstarted EXCEPT ![b] = TRUE]
    /\ nalloc' = nalloc + 1
    /\ qorder' = [qorder EXCEPT ![b] = nalloc + 1]
    /\ bpc' = [bpc EXCEPT ![b] = "done"]
    /\ bres' = [bres EXCEPT ![b] = PipelineClient(b)]
    /\ UNCHANGED <<mgrVars, mu, tsend, tclose, taskVars, closeVars, bhow,
                   ctxDone, nfinish, qerr, cfgVars, atab, ans, imports, calls,
                   recvVars, peerVars>>

\* The cap tables of a return, some naming what is not in the tables.
ReturnCapsAny ==
    {<<>>, <<Desc("senderHosted", 0, <<>>)>>,
     <<Desc("thirdPartyHosted", 0, <<>>)>>}
    \cup {<<Desc("receiverHosted", NIds, <<>>)>>,
          <<Desc("receiverAnswer", 0, <<>>)>>,
          <<Desc("senderHosted", 0, <<>>), Desc("receiverHosted", NIds, <<>>)>>}

\* Lines 324-330: qstate == questionCanceled, read under q.mu.
sawCanceledNever(st) == FALSE
sawCanceled(st) == st \in {"canceling", "canceled"}

\* Lines 192-195 and 309-330: c.mu.Lock(), the question is popped, its
\* paramCaps are released when the return says so, its state is read; a
\* return for no question or for a canceled one ends here (line 196).
ReturnTake ==
    /\ RecvReady
    /\ nrecv < MaxReturns
    /\ UNCHANGED peerVars
    /\ nrecv' = nrecv + 1
    /\ \E id \in QIds, variant \in ReturnVariants, rel \in BOOLEAN :
       \E caps \in (IF variant = "results" THEN ReturnCapsAny ELSE {<<>>}) :
          LET b == popQuestion(id)
              m == [returnMessage(id, variant, caps) EXCEPT !.rel = rel]
              T0 == [Tables EXCEPT !.qtab = qtabAfterPop(id),
                                   !.qgen = qgenAfterPop(id)]
              T1 == IF b # 0 /\ rel THEN releaseEach(T0, qparams[b]) ELSE T0
          IN  IF b = 0 \/ sawCanceled(qstate[b])
              THEN Taken(T1, m)
              ELSE /\ Commit(T1)
                   /\ mu' = HeldBy("recv", 0)
                   /\ rpc' = "return"
                   /\ rmsg' = m
                   /\ rq' = b

\* The rest of handleReturnMessage, then c.mu.Unlock() (line 196); the
\* return stays on record.
ReturnFinish ==
    /\ rpc = "return"
    /\ Taken(handleReturnVariant(Tables, rmsg, rq), rmsg)
    /\ UNCHANGED <<nrecv, peerVars>>

Next ==
    \/ \E c \in CProcs : CloseShutdown(c)
    \/ \E c \in CProcs : CloseWait(c)
    \/ \E c \in CProcs : CloseSendAbort(c)
    \/ \E c \in CProcs : CloseTransport(c)
    \/ \E b \in BProcs : BootstrapSelect(b)
    \/ \E b \in BProcs : BootstrapWakeMu(b)
    \/ \E b \in BProcs : BootstrapWoken(b)
    \/ \E b \in BProcs : CancelCtx(b)
    \/ \E b \in BProcs : BootstrapEnqueue(b)
    \/ SendLoopSend
    \/ SendLoopFail
    \/ SendLoopExit
    \/ RecvFail
    \/ RecvExit
    \/ RecvAbort
    \/ Finalizer

Spec == Init /\ [][Next]_vars

\* A connection serving the peer's bootstraps, calls, finishes and
\* disembargoes, with any of the three bootstrap options.
InitA == InitConn /\ mainFunc \in {"none", "MainInterface", "BootstrapFunc"}

NextA ==
    \/ RecvBootstrap
    \/ RecvCall
    \/ RecvDisembargo
    \/ \E s \in Serials : JoinAnswer(s)
    \/ SendLoopSend
    \/ RecvExit
    \/ SendLoopExit

SpecA == InitA /\ [][NextA]_vars

\* Bootstrap questions, their cancellation and the peer's returns.
NextQ ==
    \/ \E b \in BProcs : BootstrapSelect(b)
    \/ \E b \in BProcs : BootstrapWakeMu(b)
    \/ \E b \in BProcs : BootstrapWoken(b)
    \/ \E b \in BProcs : BootstrapEnqueue(b)
    \/ \E b \in BProcs : CancelCtx(b)
    \/ \E b \in BProcs : QuestionCancel(b)
    \/ \E b \in BProcs : QuestionCancelSend(b)
    \/ ReturnPop
    \/ ReturnResolve
    \/ SendLoopSend
    \/ RecvAbort
    \/ RecvExit
    \/ SendLoopExit

SpecQ == Init /\ [][NextQ]_vars

\* The export table: bootstraps and calls whose returns export
\* capabilities, the peer's finish and release messages, the finalizer.
NextR ==
    \/ RecvBootstrap
    \/ RecvCall
    \/ \E s \in Serials : JoinAnswer(s)
    \/ RecvFinish
    \/ RecvRelease
    \/ SendLoopSend
    \/ Finalizer

SpecR == Init /\ [][NextR]_vars

\* The import table: a peer that follows the protocol sends capabilities in
\* the cap tables of its calls, the application drops imports, and the peer
\* handles the releases it gets.
NextI ==
    \/ RecvBootstrap
    \/ RecvCallCaps
    \/ \E i \in Ids : DropImport(i)
    \/ SendLoopSend
    \/ PeerRecv

SpecI == Init /\ [][NextI]_vars

\* Payloads with cap tables, in the calls and in the returns of the peer.
NextV ==
    \/ RecvBootstrapAny
    \/ RecvCallAny
    \/ \E b \in BProcs : SendCall(b)
    \/ ReturnTake
    \/ ReturnFinish
    \/ SendLoopSend

SpecV == Init /\ [][NextV]_vars

\* Messages of the peer that break the protocol or name what is not in the
\* tables.
NextE ==
    \/ RecvBootstrapAny
    \/ RecvCallAny
    \/ RecvFinishAny
    \/ RecvDisembargoAny
    \/ \E s \in Serials : JoinAnswer(s)
    \/ SendLoopSend

\* Calls of this side and the returns of the peer.
NextP ==
    \/ \E b \in BProcs : SendCall(b)
    \/ \E b \in BProcs : CancelCtx(b)
    \/ \E b \in BProcs : QuestionCancel(b)
    \/ \E b \in BProcs : QuestionCancelSend(b)
    \/ ReturnTake
    \/ ReturnFinish
    \/ SendLoopSend

SpecP == Init /\ [][NextP]_vars

SpecE == InitA /\ [][NextE]_vars

\* The tasks that are still around when the manager shuts down.
NextF ==
    \/ RecvTake
    \/ RecvHandle
    \/ \E s \in Serials : JoinAnswer(s)
    \/ \E c \in CProcs : CloseShutdown(c)
    \/ SendLoopSend
    \/ SendLoopExit
    \/ RecvExit
    \/ Finalizer

SpecF == Init /\ [][NextF]_vars

\* The finalizer and the handler are goroutines: each runs once it can take
\* c.mu, which every holder gives back.
LiveF ==
    /\ SpecF
    /\ WF_vars(Finalizer)
    /\ WF_vars(RecvHandle)

(* ------------------------------ claims --------------------------------- *)
\* Everything ever put on c.out, in order: what the transport was handed by
\* the send loop, then what is still queued.
Transmitted == SelectSeq(tsend, LAMBDA m : m # newAbortMessage("errShutdown"))
Enqueued == Transmitted \o out
BootMsgsOf(b) ==
    {i \in DOMAIN Enqueued :
        Enqueued[i].kind = "bootstrap" /\ Enqueued[i].q = b}
ShutdownAborts ==
    {i \in DOMAIN tsend : tsend[i] = newAbortMessage("errShutdown")}
CloseLost(c) == cpc[c] = "done" /\ cret[c] = "ErrConnClosed"
CloseWinners == {c \in CProcs : cpc[c] # "idle" /\ ~CloseLost(c)}

\* C1: of any number of Close calls at most one wins the shutdown; the
\* winner waits for the background tasks, hands one abort(shutdown) to the
\* transport and then calls transport.Close once, also when the write
\* failed; every other call returns ErrConnClosed and leaves the transport
\* alone.  When the terminal error is ErrConnClosed there is a winner.
C1_CloseOnce ==
    /\ Cardinality(CloseWinners) <= 1
    /\ Cardinality(ShutdownAborts) <= 1
    /\ Len(tclose) <= 1
    /\ (merr = "ErrConnClosed") => Cardinality(CloseWinners) = 1
    /\ \A c \in CProcs :
          /\ cpc[c] \in {"hangup", "closeWerr", "closeOk"} => waitReturns
          /\ cpc[c] \in {"wait", "hangup"} =>
                ShutdownAborts = {} /\ tclose = <<>>
          /\ cpc[c] \in {"closeWerr", "closeOk"} =>
                Cardinality(ShutdownAborts) = 1 /\ tclose = <<>>
          /\ c \in CloseWinners /\ cpc[c] = "done" =>
                /\ Cardinality(ShutdownAborts) = 1
                /\ tclose = <<c>>
                /\ cret[c] \in {"werr", "cerr", "nil"}
          /\ CloseLost(c) => \A i \in DOMAIN tclose : tclose[i] # c
          /\ CloseWinners = {} => ShutdownAborts = {} /\ tclose = <<>>

\* C1 witness: two Close calls returned; the winner's abort write failed and
\* it closed the transport all the same, the other got ErrConnClosed.
C1_Witness ==
    \E c, d \in CProcs :
        /\ cpc[c] = "done" /\ cret[c] = "werr" /\ tclose = <<c>>
        /\ cpc[d] = "done" /\ cret[d] = "ErrConnClosed"

\* C2: once the connection was shut down by a received abort (the terminal
\* error is the abort), a Close call that has returned has closed the
\* transport.
C2_CloseAfterAbortClosesTransport ==
    \A c \in CProcs :
        (merr = "Abort" /\ cpc[c] = "done") => Len(tclose) >= 1

\* C3: a Bootstrap call parked on the mutex is never left parked once the
\* manager has shut down; the shutdown makes it return an error client
\* carrying the manager's error, and it allocates no question and enqueues
\* no bootstrap message.
C3_ParkedBootstrapFailsOnShutdown ==
    \A b \in BProcs :
        /\ bpc[b] = "parked" => ~done
        /\ bpc[b] = "wokeFinish" => done /\ qstate[b] = "none"
        /\ bhow[b] = "parkedFinish" =>
              /\ bpc[b] = "done"
              /\ bres[b] = ErrorClient(merr)
              /\ merr # "none"
              /\ qstate[b] = "none"
              /\ \A i \in DOMAIN qtab : qtab[i] # b
              /\ BootMsgsOf(b) = {}

\* C3 witness: a call that was parked on the mutex when the manager shut
\* down has returned.
C3_Witness ==
    \E b \in BProcs : bhow[b] = "parkedFinish" /\ bpc[b] = "done"

FinishMsgsOf(b) ==
    {i \in DOMAIN Enqueued :
        Enqueued[i].kind = "finish" /\ Enqueued[i].q = b}

\* C5: no question sends finish twice, whatever the interleaving of the
\* cancellation of its context with the handling of the peer's return.
C5_FinishAtMostOnce ==
    \A b \in BProcs : Cardinality(FinishMsgsOf(b)) <= 1

\* The serials of the calls dispatched so far, and the rank of each.
Dispatched == {calls[i].s : i \in DOMAIN calls}
RankOf(s) == CHOOSE i \in DOMAIN calls : calls[i].s = s
QueueOf(q) == {ans[q].queue[i].s : i \in DOMAIN ans[q].queue}

\* C6: a call pipelined on an answer that is pending waits in that answer's
\* queue, in arrival order, and is not dispatched; once the answer has
\* resolved none of its pipelined calls is left waiting, each was dispatched
\* once, on what its transform selects in the resolution, and they were
\* dispatched in arrival order, so the queued ones before any later one.
C6_PipelinedCallsQueuedInOrder ==
    /\ \A i, j \in DOMAIN calls : calls[i].s = calls[j].s => i = j
    /\ \A q \in Serials :
          /\ \A i, j \in DOMAIN ans[q].queue :
                i < j => ans[q].queue[i].s < ans[q].queue[j].s
          /\ ans[q].st # "pending" => ans[q].queue = <<>>
    /\ \A s \in Serials :
          LET q == ans[s].on IN
          (ans[s].st # "none" /\ q # 0) =>
             /\ ans[q].st = "pending" =>
                   /\ ans[s].queued
                   /\ ans[s].st = "pending"
                   /\ s \in QueueOf(q)
                   /\ s \notin Dispatched
             /\ ans[q].st # "pending" =>
                   /\ s \in Dispatched
                   /\ calls[RankOf(s)].cl =
                         clientFromResolution(ans[s].tr, ans[q].obj,
                                              ans[q].st # "fulfilled")
                   /\ \A t \in Serials :
                         (ans[t].on = q /\ t \in Dispatched /\ s < t)
                         => RankOf(s) < RankOf(t)

\* C6 witness: a call that waited in the queue of an answer and a call that
\* came after that answer was fulfilled were both dispatched on a
\* capability of the result.
C6_Witness ==
    \E s, t \in Serials :
        /\ ans[s].on # 0 /\ ans[t].on = ans[s].on
        /\ ans[s].queued /\ ~ans[t].queued
        /\ s \in Dispatched /\ t \in Dispatched
        /\ calls[RankOf(s)].cl = "obj" /\ calls[RankOf(t)].cl = "obj"

\* The receiverLoopback disembargoes put on c.out for embargo e.
RepliesTo(e) ==
    {i \in DOMAIN Enqueued :
        /\ Enqueued[i].kind = "disembargo"
        /\ Enqueued[i].arg = "receiverLoopback"
        /\ Enqueued[i].n = e}
EmbargoesOf(a) == {ans[a].embargoes[i] : i \in DOMAIN ans[a].embargoes}

\* C7: for a senderLoopback disembargo e on a promised answer a, no reply is
\* sent while a is pending (e waits in a's disembargo queue); a reply is
\* never sent twice, carries e and the original target, and is sent only
\* when every call pipelined on a that arrived before e has been dispatched;
\* once a has resolved the reply has been sent, unless the connection shut
\* down.
C7_DisembargoReplyOnceAfterQueue ==
    \A a \in Serials : \A e \in EmbargoesOf(a) :
        /\ Cardinality(RepliesTo(e)) <= 1
        /\ \A i \in RepliesTo(e) :
              Enqueued[i].tgt = Target("promisedAnswer", ans[a].id, <<>>)
        /\ ans[a].st = "pending" =>
              /\ RepliesTo(e) = {}
              /\ \E i \in DOMAIN ans[a].dq : ans[a].dq[i].id = e
        /\ ans[a].st # "pending" =>
              /\ ans[a].dq = <<>>
              /\ done \/ Cardinality(RepliesTo(e)) = 1
        /\ RepliesTo(e) # {} =>
              \A s \in Serials :
                  (ans[s].on = a /\ s < e) => s \in Dispatched

\* C7 witness: a disembargo arrived behind a queued pipelined call; the
\* answer resolved, the call was dispatched and the reply was sent.
C7_Witness ==
    \E a, s \in Serials : \E e \in EmbargoesOf(a) :
        /\ ans[s].on = a /\ ans[s].queued /\ s < e
        /\ s \in Dispatched
        /\ Cardinality(RepliesTo(e)) = 1
        /\ ~done

\* The sum of release.referenceCount over the releases of export id in a
\* sequence of messages.
RECURSIVE ReleasedIn(_, _)
ReleasedIn(msgs, id) ==
    IF msgs = <<>> THEN 0
    ELSE (IF Head(msgs).kind = "release" /\ Head(msgs).id = id
          THEN Head(msgs).n ELSE 0)
         + ReleasedIn(Tail(msgs), id)
RECURSIVE SumOver(_, _)
SumOver(f, ids) ==
    IF ids = {} THEN 0
    ELSE LET i == CHOOSE x \in ids : TRUE
         IN  f[i] + SumOver(f, ids \ {i})
ReleasedSent == SumOver([i \in Ids |-> ReleasedIn(Enqueued, i)], Ids)
NoImports == \A i \in Ids : imports[i] = 0
\* The messages the peer has not handled yet.
OnTheWay == SubSeq(tsend, pseen + 1, Len(tsend)) \o out

ExportIdsFree == {egen.free[i] : i \in DOMAIN egen.free}
ExportTableOk ==
    /\ \A i \in Ids :
          /\ exports[i].cl # "none" => exports[i].refs > 0
          /\ exports[i].cl = "none" => exports[i].refs = 0
          /\ exports[i].cl # "none" <=> (i < egen.next /\ i \notin ExportIdsFree)
    /\ Cardinality(ExportIdsFree) = Len(egen.free)

\* The step is the handling of a release message.
ReleaseHandled == nrecv' = nrecv + 1 /\ rmsg'.kind = "release"
ReleaseEffect ==
    LET id == rmsg'.id
        k == rmsg'.n
        after == [exp |-> exports', egen |-> egen']
    IN  exports[id].cl # "none" =>
           /\ k < exports[id].refs =>
                 /\ exports' = [exports EXCEPT ![id].refs = @ - k]
                 /\ egen' = egen
           /\ k = exports[id].refs =>
                 /\ exports' = [exports EXCEPT ![id] = NoExport]
                 /\ idgenNext(egen') = id
                 /\ exportFor(after, "another") = id

\* C9: every entry of the export table has a count above zero; the handling
\* of release{id, k} takes k off the count of export id, and when that
\* leaves zero the entry is gone and id is what the next allocation of an
\* export id gives.
C9_ExportCountsAndRecycling ==
    []ExportTableOk /\ [][ReleaseHandled => ReleaseEffect]_vars

\* C9 witness: release{id, 2} has just removed an export that had been sent
\* twice, while an export with a higher id is in the table; id is the one
\* the next allocation gives.
C9_Witness ==
    /\ rmsg.kind = "release" /\ rmsg.n = 2
    /\ exports[rmsg.id] = NoExport
    /\ egen.next > rmsg.id + 1
    /\ exports[rmsg.id + 1].cl # "none"
    /\ idgenNext(egen) = rmsg.id
    /\ ~done

\* C10: a Bootstrap call that has returned has released the mutex; one that
\* allocated a question and returned an error client left no question in
\* the table, started none and enqueued no message; one that returned a
\* pipeline client enqueued exactly one bootstrap message, carrying its
\* question's id, and started the question.
C10_BootstrapFailurePopsQuestion ==
    \A b \in BProcs :
        bpc[b] = "done" =>
            /\ mu # HeldBy("Bootstrap", b)
            /\ bres[b].kind = "error" =>
                  /\ \A i \in DOMAIN qtab : qtab[i] # b
                  /\ BootMsgsOf(b) = {}
                  /\ ~qstarted[b]
            /\ bres[b].kind = "pipeline" =>
                  /\ Cardinality(BootMsgsOf(b)) = 1
                  /\ \A i \in BootMsgsOf(b) : Enqueued[i].id = qid[b]
                  /\ qstarted[b]
                  /\ qorder[b] > 0

\* C10 witness: one call got its pipeline client, and another, which had
\* allocated a question, found the queue full and failed.
C10_Witness ==
    \E a, b \in BProcs :
        /\ bpc[a] = "done" /\ bres[a].kind = "pipeline"
        /\ bpc[b] = "done" /\ bres[b].kind = "error" /\ qorder[b] > qorder[a]
        /\ Len(out) = SendBuf


\* The step is handleMessage taking a message of this kind to its end.
Handles(kind) == nrecv' = nrecv + 1 /\ rmsg'.kind = kind

\* The cap table of m names nothing that is missing from the tables.
CapsKnown(m) ==
    \A i \in DOMAIN m.caps :
        /\ m.caps[i].k = "receiverHosted" => exports[m.caps[i].id].cl # "none"
        /\ m.caps[i].k = "receiverAnswer" => atab[m.caps[i].id] # 0

\* The target of call m cannot be routed.
RoutingFails(m) ==
    \/ m.tgt.k = "importedCap" /\ exports[m.tgt.id].cl = "none"
    \/ m.tgt.k = "promisedAnswer" /\ m.tgt.id = m.id
    \/ m.tgt.k = "promisedAnswer" /\ m.tgt.id # m.id /\ atab[m.tgt.id] = 0

BadTargetCall ==
    /\ Handles("call")
    /\ ~done
    /\ CapsKnown(rmsg')
    /\ atab[rmsg'.id] = 0
    /\ RoutingFails(rmsg')

\* C11: a call whose target is an export that is not there, the call's own
\* question, or an answer that is not there gets exactly one return with the
\* exception "bad target" for its answer id, its answer ends rejected, and
\* the connection stays up: nothing else is sent and the manager is not
\* shut down.
C11_BadTargetReturned ==
    [][BadTargetCall =>
          /\ Enqueued' = Append(Enqueued,
                                newReturnException(rmsg'.id, "bad target"))
          /\ ~done'
          /\ atab'[rmsg'.id] # 0
          /\ ans'[atab'[rmsg'.id]].st = "rejected"]_vars

\* Each of the three kinds of bad target has been answered.
C11_Witness_Seen(k, own) ==
    \E i \in DOMAIN Enqueued :
        /\ Enqueued[i] = newReturnException(rmsg.id, "bad target")
        /\ rmsg.kind = "call" /\ rmsg.tgt.k = k
        /\ (rmsg.tgt.id = rmsg.id) = own
        /\ ~done
C11_Witness ==
    /\ rmsg.kind = "call" /\ rmsg.tgt.k = "promisedAnswer"
    /\ rmsg.tgt.id # rmsg.id
    /\ atab[rmsg.tgt.id] = 0
    /\ ~done
    /\ \E i \in DOMAIN Enqueued :
          Enqueued[i] = newReturnException(rmsg.id, "bad target")
C11_Witness_Export == C11_Witness_Seen("importedCap", FALSE)
C11_Witness_Paradox == C11_Witness_Seen("promisedAnswer", TRUE)

BootstrapWithoutMain ==
    /\ Handles("bootstrap")
    /\ ~done
    /\ mainFunc = "none"
    /\ atab[rmsg'.id] = 0

\* C12: a bootstrap with an unused question id on a connection that has no
\* main interface factory inserts the answer and rejects it: exactly one
\* return with the exception "no main interface" goes out for that id, and
\* the manager is not shut down.
C12_NoMainInterface ==
    [][BootstrapWithoutMain =>
          /\ Enqueued' = Append(Enqueued,
                 newReturnException(rmsg'.id, "no main interface"))
          /\ atab'[rmsg'.id] # 0
          /\ ans'[atab'[rmsg'.id]].st = "rejected"
          /\ ans'[atab'[rmsg'.id]].id = rmsg'.id
          /\ ~done']_vars

C12_Witness ==
    /\ mainFunc = "none"
    /\ rmsg.kind = "bootstrap"
    /\ ~done
    /\ atab[rmsg.id] # 0
    /\ ans[atab[rmsg.id]].st = "rejected"
    /\ Len(Enqueued) > 0
    /\ Enqueued[Len(Enqueued)] = newReturnException(rmsg.id, "no main interface")

\* C13: once the manager is shut down the finalizer takes c.mu, releases
\* every export and closes the closer of the MainInterface client once;
\* from then on the export table is empty, whatever the receive loop and the
\* answers of local calls still do.
C13_FinalizerRuns == done ~> finDone
C13_ClosedOnce ==
    [](finDone => mainClosed = (IF mainFunc = "MainInterface" THEN 1 ELSE 0))
C13_ExportsStayReleased ==
    /\ C13_FinalizerRuns
    /\ C13_ClosedOnce
    /\ [](finDone => \A i \in Ids : exports[i] = NoExport)

\* The export table after the finalizer, as a predicate on states.
C13_EmptyAfterFinalizer == finDone => \A i \in Ids : exports[i] = NoExport

\* The finalizer has run with exports in the table and has emptied it.
C13_Witness ==
    /\ finDone
    /\ mainClosed = 1
    /\ \A i \in Ids : exports[i] = NoExport
    /\ egen.free # <<>>

\* handleReturnMessage reaches its switch with question b, which it has
\* just seen in progress, and the step takes the handler to its end.
ReturnSettles(variant) ==
    /\ rpc = "return" /\ rpc' = "idle"
    /\ rmsg.arg = variant
    /\ ~done

FinishSent(id, rel, b) == Enqueued' = Append(Enqueued, newFinishMessage(id, rel, b))

\* The cap table of the return being handled can be populated.
ReturnCapsKnown ==
    /\ CapsKnown(rmsg)
    /\ \A i \in DOMAIN rmsg.caps : rmsg.caps[i].k # "thirdPartyHosted"

\* C14: a return for a question that is in the table and not canceled ends
\* by its variant: results fulfil the question and finish{false} is sent;
\* an exception rejects it and finish{true} is sent; canceled rejects it
\* with "receiver reported canceled" and nothing is sent; any other variant
\* is echoed as unimplemented and no finish is sent.
C14_ReturnByVariant ==
    [][/\ (ReturnSettles("results") /\ ReturnCapsKnown) =>
            /\ qstate'[rq] = "resolved" /\ qerr'[rq] = "nil"
            /\ FinishSent(rmsg.id, FALSE, rq)
       /\ ReturnSettles("exception") =>
            /\ qstate'[rq] = "resolved" /\ qerr'[rq] = "exception"
            /\ FinishSent(rmsg.id, TRUE, rq)
       /\ ReturnSettles("canceled") =>
            /\ qstate'[rq] = "resolved"
            /\ qerr'[rq] = "receiver reported canceled"
            /\ Enqueued' = Enqueued
       /\ ReturnSettles("takeFromOtherQuestion") =>
            /\ Enqueued' = Append(Enqueued, newUnimplementedMessage(rmsg))
            /\ qstate'[rq] = qstate[rq]]_vars

\* The same for the handlers during which the question is not canceled.
C14_ReturnByVariantUncanceled ==
    [][(rpc = "return" /\ qstate[rq] = "pending") =>
       /\ (ReturnSettles("results") /\ ReturnCapsKnown) =>
            /\ qstate'[rq] = "resolved" /\ qerr'[rq] = "nil"
            /\ FinishSent(rmsg.id, FALSE, rq)
       /\ ReturnSettles("exception") =>
            /\ qstate'[rq] = "resolved" /\ qerr'[rq] = "exception"
            /\ FinishSent(rmsg.id, TRUE, rq)
       /\ ReturnSettles("canceled") =>
            /\ qstate'[rq] = "resolved"
            /\ qerr'[rq] = "receiver reported canceled"
            /\ Enqueued' = Enqueued
       /\ ReturnSettles("takeFromOtherQuestion") =>
            /\ Enqueued' = Append(Enqueued, newUnimplementedMessage(rmsg))
            /\ qstate'[rq] = qstate[rq]]_vars

\* C14, the paramCaps: a return with releaseParamCaps for a question in the
\* table takes one reference off each export in its paramCaps.
C14_ParamCapsReleased ==
    [][(/\ Handles("return")
        /\ rmsg'.rel
        /\ popQuestion(rmsg'.id) # 0) =>
            LET b == popQuestion(rmsg'.id) IN
            \A i \in DOMAIN qparams[b] :
                LET e == qparams[b][i] IN
                IF exports[e].refs > 1
                THEN exports'[e] = [exports[e] EXCEPT !.refs = @ - 1]
                ELSE exports'[e] = NoExport]_vars

\* A return with results has fulfilled a question that had paramCaps, and
\* these were released.
C14_Witness ==
    \E b \in BProcs :
        /\ qstate[b] = "resolved" /\ qerr[b] = "nil"
        /\ rmsg.kind = "return" /\ rmsg.arg = "results" /\ rmsg.rel
        /\ rmsg.id = qid[b]
        /\ qparams[b] # <<>>
        /\ nfinish[b] = 1
        /\ \A i \in DOMAIN qparams[b] : exports[qparams[b][i]] = NoExport

\* The step handles a return for question b, which is in the table and
\* canceled.
ReturnForCanceled(b) ==
    /\ Handles("return")
    /\ popQuestion(rmsg'.id) = b
    /\ qstate[b] \in {"canceling", "canceled"}

\* C15: a return for a canceled question is dropped.  The question leaves
\* the table and stays canceled, the handler sends nothing, the cap table
\* of the return is not looked at, so that no import changes, and the only
\* other change of the tables is one reference less on each export in
\* paramCaps when the return has releaseParamCaps.
C15_CanceledReturnDropped ==
    [][\A b \in BProcs : ReturnForCanceled(b) =>
          /\ rpc' = "idle" /\ mu' = Unlocked
          /\ qtab'[rmsg'.id] = 0
          /\ qstate' = qstate /\ qerr' = qerr /\ nfinish' = nfinish
          /\ Enqueued' = Enqueued
          /\ imports' = imports /\ atab' = atab /\ ans' = ans
          /\ done' = done
          /\ exports' = (IF rmsg'.rel THEN releaseEach(Tables, qparams[b]).exp
                         ELSE exports)]_vars

\* A return with results, a capability in its cap table and
\* releaseParamCaps has been dropped for a canceled question.
C15_Witness ==
    \E b \in BProcs :
        /\ qstate[b] = "canceled"
        /\ rmsg.kind = "return" /\ rmsg.arg = "results" /\ rmsg.rel
        /\ rmsg.id = qid[b]
        /\ rmsg.caps # <<>> /\ rmsg.caps[1].k = "senderHosted"
        /\ rpc = "idle"
        /\ nfinish[b] = 1
        /\ \A i \in Ids : imports[i] = 0
        /\ \A i \in DOMAIN qparams[b] : exports[qparams[b][i]] = NoExport

\* The step handles a finish whose id has no answer.
FinishForUnknown ==
    /\ Handles("finish")
    /\ atab[rmsg'.id] = 0

\* C16: a finish for an id that has no answer is ignored.  No table
\* changes, nothing is sent, c.mu is released, the receive loop is ready
\* for the next message and the manager is not shut down.
C16_UnknownFinishIgnored ==
    [][FinishForUnknown =>
          /\ atab' = atab /\ ans' = ans /\ exports' = exports
          /\ egen' = egen /\ imports' = imports /\ calls' = calls
          /\ Enqueued' = Enqueued
          /\ mu' = Unlocked
          /\ ~panicked'
          /\ done' = done]_vars

\* The receive goroutine has stopped in the finish case with c.mu held.
C16_Stopped ==
    /\ rmsg.kind = "finish"
    /\ panicked
    /\ mu = HeldBy("recv", 0)

\* The error handleDisembargoMessage returns for disembargo m ("nil": none).
DisembargoError(m) ==
    IF m.arg = "malformed" THEN "decode"
    ELSE IF m.arg = "senderLoopback" /\ m.tgt.k # "promisedAnswer"
    THEN "errDisembargoNonImport"
    ELSE IF m.arg = "senderLoopback" /\ atab[m.tgt.id] = 0
    THEN "errDisembargoMissingAnswer"
    ELSE "nil"

OtherContext(m) == m.arg \notin {"malformed", "senderLoopback", "receiverLoopback"}

Aborted(err) ==
    /\ Enqueued' = Append(Enqueued, newAbortMessage(err))
    /\ done'
    /\ merr' = shutdownErr(err)

\* C17 as stated: a disembargo that cannot be decoded, a senderLoopback
\* whose target is no promisedAnswer or whose answer is not in the table,
\* and a disembargo with another context (accept, provide) each abort the
\* connection.
C17_EveryFailureAborts ==
    [][(/\ Handles("disembargo")
        /\ ~done
        /\ DisembargoError(rmsg') # "nil" \/ OtherContext(rmsg')) =>
            /\ done'
            /\ \E err \in {"decode", "errDisembargoNonImport",
                           "errDisembargoMissingAnswer", "errUnimplemented"} :
                  Enqueued' = Append(Enqueued, newAbortMessage(err))]_vars

\* C17: a disembargo that cannot be decoded, and a senderLoopback whose
\* target is no promisedAnswer or whose answer is not in the table, abort
\* the connection: the abort with that error is put on c.out and the manager
\* is shut down with it.  A disembargo with another context (accept,
\* provide) is echoed as unimplemented and the connection stays up.
C17_ErrorsAbortOthersEchoed ==
    [][(Handles("disembargo") /\ ~done) =>
          /\ DisembargoError(rmsg') # "nil" => Aborted(DisembargoError(rmsg'))
          /\ OtherContext(rmsg') =>
                /\ Enqueued' = Append(Enqueued, newUnimplementedMessage(rmsg'))
                /\ ~done'
                /\ atab' = atab /\ ans' = ans]_vars

\* A disembargo with the provide context was echoed and the manager runs.
C17_Witness ==
    /\ rmsg.kind = "disembargo" /\ rmsg.arg = "provide"
    /\ ~done
    /\ Len(Enqueued) > 0
    /\ Enqueued[Len(Enqueued)] = newUnimplementedMessage(rmsg)

\* A senderLoopback for an answer that is not in the table has aborted.
C17_Witness_Aborted ==
    /\ rmsg.kind = "disembargo" /\ rmsg.arg = "senderLoopback"
    /\ done /\ merr = shutdownErr("errDisembargoMissingAnswer")
    /\ \E i \in DOMAIN Enqueued :
          Enqueued[i] = newAbortMessage("errDisembargoMissingAnswer")

\* The release being handled asks for more references than export id has.
OverRelease ==
    /\ ReleaseHandled
    /\ ~done
    /\ exports[rmsg'.id].cl # "none"
    /\ rmsg'.n > exports[rmsg'.id].refs

\* C18: a release whose referenceCount is above the count of the export
\* aborts the connection: the abort message is put on c.out and the manager
\* is shut down with the error.
C18_OverReleaseAborts ==
    [][OverRelease => Aborted("over-release")]_vars

\* release{id, 2} on an export with one reference has aborted.
C18_Witness ==
    /\ rmsg.kind = "release" /\ rmsg.n = 2
    /\ done /\ merr = "over-release"
    /\ exports[rmsg.id] = NoExport
    /\ egen.free # <<>> /\ Head(egen.free) = rmsg.id
    /\ Len(Enqueued) > 0
    /\ Enqueued[Len(Enqueued)] = newAbortMessage("over-release")

\* What stops the reading of a cap table, descriptor i onwards: "violation"
\* for a receiverHosted or receiverAnswer that is not in the tables,
\* "unknown" for a descriptor of a kind that is not handled, "none" when
\* the table is read to its end.
RECURSIVE FirstFault(_, _)
FirstFault(caps, i) ==
    IF i > Len(caps) THEN "none"
    ELSE IF caps[i].k = "receiverHosted" /\ exports[caps[i].id].cl = "none"
    THEN "violation"
    ELSE IF caps[i].k = "receiverAnswer" /\ atab[caps[i].id] = 0
    THEN "violation"
    ELSE IF caps[i].k \notin {"none", "senderHosted", "senderPromise",
                              "receiverHosted", "receiverAnswer"}
    THEN "unknown"
    ELSE FirstFault(caps, i + 1)

AbortedForCaps ==
    /\ done'
    /\ \E err \in {"unknown export ID", "unknown answer ID"} :
          /\ Enqueued' = Append(Enqueued, newAbortMessage(err))
          /\ merr' = err

CallWithBadCaps ==
    /\ Handles("call")
    /\ ~done
    /\ rmsg'.tgt.k \in {"importedCap", "promisedAnswer"}
    /\ FirstFault(rmsg'.caps, 1) = "violation"

ReturnWithBadCaps ==
    /\ ReturnSettles("results")
    /\ FirstFault(rmsg.caps, 1) = "violation"

\* C19: a call or a return whose cap table names an export or an answer
\* that is not in the tables aborts the connection: the abort is put on
\* c.out and the manager is shut down.  The call gets no answer entry; the
\* question of the return is not resolved and no finish is sent for it.
C19_CapTableViolationAborts ==
    [][/\ CallWithBadCaps =>
             /\ AbortedForCaps
             /\ atab' = atab /\ ans' = ans /\ calls' = calls
       /\ ReturnWithBadCaps =>
             /\ AbortedForCaps
             /\ qstate' = qstate /\ qerr' = qerr /\ nfinish' = nfinish]_vars

\* A call whose cap table names its own, not yet existing, answer has
\* aborted the connection and has no answer entry.
C19_Witness ==
    /\ rmsg.kind = "call"
    /\ \E i \in DOMAIN rmsg.caps : rmsg.caps[i].k = "receiverAnswer"
    /\ atab[rmsg.id] = 0
    /\ done /\ merr = "unknown answer ID"
    /\ Len(Enqueued) > 0
    /\ Enqueued[Len(Enqueued)] = newAbortMessage("unknown answer ID")

\* Results that name an unknown export have aborted the connection; the
\* question is still unresolved and no finish went out for it.
C19_Witness_Return ==
    \E b \in BProcs :
        /\ rmsg.kind = "return" /\ rmsg.arg = "results" /\ rmsg.id = qid[b]
        /\ rpc = "idle"
        /\ qstate[b] = "pending" /\ nfinish[b] = 0
        /\ done /\ merr = "unknown export ID"
        /\ Len(Enqueued) > 0
        /\ Enqueued[Len(Enqueued)] = newAbortMessage("unknown export ID")

\* The step handles a bootstrap whose id has an answer already.
BootstrapReusesId ==
    /\ Handles("bootstrap")
    /\ ~done
    /\ atab[rmsg'.id] # 0

\* C20: a bootstrap whose question id is in the answer table is answered
\* with a return carrying the exception "question ID reused"; the entry
\* that is there stays as it is, the factory is not called, so that nothing
\* is exported, and the manager is not shut down.
C20_ReusedIdRefused ==
    [][BootstrapReusesId =>
          /\ Enqueued' = Append(Enqueued,
                 newReturnException(rmsg'.id, "question ID reused"))
          /\ atab' = atab /\ ans' = ans
          /\ exports' = exports /\ egen' = egen /\ calls' = calls
          /\ ~done']_vars

\* A second bootstrap with the id of a fulfilled answer was refused.
C20_Witness ==
    /\ rmsg.kind = "bootstrap"
    /\ atab[rmsg.id] # 0
    /\ ans[atab[rmsg.id]].st = "fulfilled"
    /\ atab[rmsg.id] < nrecv
    /\ ~done
    /\ Len(Enqueued) > 0
    /\ Enqueued[Len(Enqueued)] = newReturnException(rmsg.id, "question ID reused")

\* Question b was taken out of the table, and no handler is at work on it.
RemovedAndLeft(b) ==
    /\ qstate[b] # "none"
    /\ qtab[qid[b]] # b
    /\ ~(rpc = "return" /\ rq = b)

\* C21: a question that the return handler has taken out of the table and
\* that is not canceled has left the pending state by the time the handler
\* returns, whatever the variant of the return and whatever its cap table:
\* no question is out of the table, still pending and not canceled.
C21_RemovedQuestionResolved ==
    \A b \in BProcs : RemovedAndLeft(b) => qstate[b] # "pending"

\* On a running connection a return with an unsupported variant has been
\* echoed as unimplemented and its question is out of the table and pending.
C21_Orphan ==
    \E b \in BProcs :
        /\ RemovedAndLeft(b)
        /\ qstate[b] = "pending" /\ qerr[b] = "" /\ nfinish[b] = 0
        /\ ~done
        /\ rmsg.kind = "return" /\ rmsg.arg = "takeFromOtherQuestion"
        /\ rmsg.id = qid[b]
        /\ Len(Enqueued) > 0
        /\ Enqueued[Len(Enqueued)] = newUnimplementedMessage(rmsg)
====
